---- MODULE Spec2Model ----
(***************************************************************************)
(* Model of the file-registry front end:                                   *)
(*   - the bulk endpoint  POST /api/files/bulk  (app/api/files/bulk/       *)
(*     route.ts) running against the two metadata stores and the blob      *)
(*     directory, with the page's selection state and handleBulkDelete     *)
(*     (app/page.tsx) as one of its clients;                               *)
(*   - the JSON merge modal (JsonMergeModal): its merge computation, and   *)
(*     its dropdowns, debounced preview and merge request as opened from   *)
(*     the page.                                                           *)
(* A request handler is an async function: it is cut into one atomic step  *)
(* per await, so that two requests interleave where Node lets them.        *)
(***************************************************************************)
EXTENDS Integers, Sequences, FiniteSets, TLC

VARIABLES
    mongo,          \* document store: id -> filePath of the documents present
    pg,             \* relational store: id -> file_path of the rows present
    disk,           \* absolute paths (segment sequences) of the files on disk
    unlinkCalls,    \* history: every absolute path handed to unlink, with the outcome
    body,           \* request -> JSON body sent
    pc,             \* request -> position of its handler
    idx,            \* request -> index of the entry the loop is at
    filePath,       \* request -> the loop body's local filePath
    results,        \* request -> the handler's local results object
    resp,           \* request -> the response returned
    attempted,      \* history: request -> indexes whose store lookup was issued
    threw,          \* history: request -> indexes at which the loop body threw
    selectedFiles,  \* page state: the selection
    selectionMode,  \* page state
    files,          \* page state: the listing last fetched
    loading,        \* page state: a fetchFiles round trip is pending
    uiPc,           \* position of the page's handleBulkDelete
    data1,          \* modal: what the fetch of the first file parsed to
    data2,          \* modal: what the fetch of the second file parsed to
    mergeStrategy,  \* modal state
    preview,        \* modal state: <<>> for null, <<v>> for the value v
    error,          \* modal state: "" for null
    gpPc,           \* position of generatePreview
    heap,           \* the objects of the preview computation, by address
    parsed,         \* the two values r.json() returned, as references into heap
    mergeModalOpen, \* page state: the merge modal's isOpen
    mergeSelected,  \* modal state: its selectedFiles, the two slots
    merging,        \* modal state: its loading
    timer,          \* the pending debounce timer with what its closure captured
    fetching,       \* the generatePreview calls whose fetches are in flight
    mergeRequest,   \* the body handleMerge sent to /api/files/merge, while in flight
    picked,         \* history: the option last picked in each dropdown
    content         \* what GET of a stored filePath parses to

bulkVars == <<mongo, pg, disk, unlinkCalls, body, pc, idx, filePath, results,
              resp, attempted, threw>>
pageVars == <<selectedFiles, selectionMode, files, loading, uiPc>>
modalVars == <<mergeModalOpen, mergeSelected, merging, timer, fetching,
               mergeRequest, picked, content>>
mergeVars == <<data1, data2, mergeStrategy, preview, error, gpPc, heap, parsed,
               modalVars>>
vars == <<bulkVars, pageVars, mergeVars>>

(***************************************************************************)
(* Bounds and value sets                                                   *)
(***************************************************************************)
\* entries in flight, over all requests together
MaxEntries == 2
\* nodes (scalars, arrays, objects) of two different merge inputs together, and
\* of one document merged with itself
MaxNodes == 4
\* generatePreview calls of the modal whose fetches are in flight together
MaxFetches == 2
\* files selected on the page together
MaxSelected == 3

\* "ui" is the request handleBulkDelete sends, "api" one of any other client
Requests == {"ui", "api"}
Ids == {1, 2}
\* the ids both stores hold a record of at the start; no record has another id
StoredIds == {1}
\* the handler compares storageType with "mongodb" only; "s3" stands for any
\* other value a body can carry
StorageTypes == {"mongodb", "postgres", "s3"}
Entries == [id : Ids, storageType : StorageTypes]

Null == <<>>

(***************************************************************************)
(* Paths.  A path string is a sequence of tokens, "/" or a segment name.   *)
(***************************************************************************)
Cwd == <<"/", "srv">>
Public == <<"public">>
Root == <<"srv", "public">>

MongoPath == <<"/", "uploads", "/", "a.json">>

StoredPaths ==
    { <<"/", "uploads", "/", "a.json">>,
      <<"uploads", "/", "b.json">>,
      <<"/", "uploads", "/", "..", "/", "uploads", "/", "c.json">>,
      <<"/", "..", "/", ".env">> }

RECURSIVE Segments(_)
Segments(s) ==
    IF s = <<>> THEN <<>>
    ELSE IF Head(s) = "/" THEN Segments(Tail(s))
    ELSE <<Head(s)>> \o Segments(Tail(s))

RECURSIVE Resolve(_, _)
Resolve(acc, segs) ==
    IF segs = <<>> THEN acc
    ELSE LET s == Head(segs) IN
         Resolve(IF s = "." THEN acc
                 ELSE IF s = ".."
                      THEN (IF acc = <<>> THEN acc ELSE SubSeq(acc, 1, Len(acc) - 1))
                      ELSE Append(acc, s),
                 Tail(segs))

\* path.join(a, b, c): the parts joined by "/" and normalized
pathJoin(a, b, c) == Resolve(<<>>, Segments(a \o <<"/">> \o b \o <<"/">> \o c))

\* filePath.startsWith("/") ? filePath.slice(1) : filePath
cleanPath(fp) == IF fp # <<>> /\ Head(fp) = "/" THEN Tail(fp) ELSE fp

absolutePath(fp) == pathJoin(Cwd, Public, cleanPath(fp))

IsPrefix(p, q) == Len(p) <= Len(q) /\ SubSeq(q, 1, Len(p)) = p
InsideRoot(p) == IsPrefix(Root, p) /\ p # Root

(***************************************************************************)
(* JavaScript values.  A value is a record [kind, proto, val]:             *)
(*   null, num, str      primitives (val: the number, the characters)      *)
(*   arr                 val: the elements                                 *)
(*   obj                 val: the own enumerable properties in order, as   *)
(*                       [key, value] records; proto: <<>> for             *)
(*                       Object.prototype, <<p>> once the prototype is p   *)
(*   objproto, function  Object.prototype itself and its built-in methods  *)
(* What response.json() returns has kind null, num, str, arr or obj, and   *)
(* every obj in it has proto <<>> and its keys as own properties.          *)
(***************************************************************************)
JNull == [kind |-> "null", proto |-> <<>>, val |-> <<>>]
JNum(n) == [kind |-> "num", proto |-> <<>>, val |-> <<n>>]
JStr(cs) == [kind |-> "str", proto |-> <<>>, val |-> cs]
JArr(es) == [kind |-> "arr", proto |-> <<>>, val |-> es]
JObj(ps) == [kind |-> "obj", proto |-> <<>>, val |-> ps]
Prop(k, x) == [key |-> k, value |-> x]
ObjectPrototype == [kind |-> "objproto", proto |-> <<>>, val |-> <<>>]
BuiltinFn == [kind |-> "function", proto |-> <<>>, val |-> <<>>]

\* the property names every ordinary object inherits from Object.prototype
ObjectProtoKeys ==
    {"__proto__", "constructor", "toString", "valueOf", "hasOwnProperty",
     "isPrototypeOf", "propertyIsEnumerable", "toLocaleString"}

\* String(i) of an array index
IndexKeys == <<"0", "1", "2", "3", "4", "5", "6", "7">>
IndexKey(i) == IndexKeys[i + 1]
IsIndexKey(k) == \E i \in DOMAIN IndexKeys : IndexKeys[i] = k
IndexOf(k) == (CHOOSE i \in DOMAIN IndexKeys : IndexKeys[i] = k) - 1

\* Array.isArray(x)
isArray(x) == x.kind = "arr"

\* x && typeof x === "object" && !Array.isArray(x)
isNonArrayObject(x) == x.kind \in {"obj", "objproto"}

\* the setter of __proto__ takes an object or null and ignores anything else
IsObjectOrNull(x) == x.kind \in {"obj", "objproto", "arr", "function", "null"}

OwnKeys(o) == { o.val[i].key : i \in DOMAIN o.val }
HasOwn(o, k) == o.kind = "obj" /\ k \in OwnKeys(o)
OwnGet(o, k) == o.val[CHOOSE i \in DOMAIN o.val : o.val[i].key = k].value

ProtoOf(o) == IF o.proto = <<>> THEN ObjectPrototype ELSE o.proto[1]

\* `k in o`: own or inherited
RECURSIVE HasProperty(_, _)
HasProperty(o, k) ==
    CASE o.kind = "obj" -> HasOwn(o, k) \/ HasProperty(ProtoOf(o), k)
      [] o.kind = "objproto" -> k \in ObjectProtoKeys
      [] o.kind = "arr" ->
            \/ (IsIndexKey(k) /\ IndexOf(k) < Len(o.val))
            \/ k = "length"
            \/ k \in ObjectProtoKeys
      [] OTHER -> FALSE

\* o[k] where k is a property of o; recv is the object the read started at
RECURSIVE GetFrom(_, _, _)
GetFrom(o, k, recv) ==
    CASE o.kind = "obj" ->
            IF HasOwn(o, k) THEN OwnGet(o, k) ELSE GetFrom(ProtoOf(o), k, recv)
      [] o.kind = "arr" ->
            IF IsIndexKey(k) /\ IndexOf(k) < Len(o.val) THEN o.val[IndexOf(k) + 1]
            ELSE IF k = "length" THEN JNum(Len(o.val))
            ELSE GetFrom(ObjectPrototype, k, recv)
      [] OTHER ->
            IF k = "__proto__" THEN ProtoOf(recv) ELSE BuiltinFn

Get(o, k) == GetFrom(o, k, o)

\* a new own property: index keys in ascending order first, then the others
\* in insertion order
RECURSIVE InsertProp(_, _, _)
InsertProp(ps, k, x) ==
    IF ps = <<>> THEN <<Prop(k, x)>>
    ELSE IF IsIndexKey(k)
            /\ (~IsIndexKey(Head(ps).key) \/ IndexOf(k) < IndexOf(Head(ps).key))
         THEN <<Prop(k, x)>> \o ps
         ELSE <<Head(ps)>> \o InsertProp(Tail(ps), k, x)

\* CreateDataProperty: the own property k of o becomes x
DefineOwn(o, k, x) ==
    IF HasOwn(o, k)
    THEN [o EXCEPT !.val = [i \in DOMAIN o.val |->
                              IF o.val[i].key = k THEN Prop(k, x) ELSE o.val[i]]]
    ELSE [o EXCEPT !.val = InsertProp(o.val, k, x)]

\* does an assignment o.__proto__ = ... reach the accessor of Object.prototype
RECURSIVE ReachesProtoAccessor(_)
ReachesProtoAccessor(o) ==
    CASE o.kind = "obj" ->
            ~HasOwn(o, "__proto__") /\ ReachesProtoAccessor(ProtoOf(o))
      [] o.kind \in {"objproto", "arr"} -> TRUE
      [] OTHER -> FALSE

\* o[k] = x
Set(o, k, x) ==
    IF k = "__proto__" /\ ReachesProtoAccessor(o)
    THEN IF IsObjectOrNull(x)
         THEN [o EXCEPT !.proto = IF x = ObjectPrototype THEN <<>> ELSE <<x>>]
         ELSE o
    ELSE DefineOwn(o, k, x)

\* the own enumerable properties { ...x } copies
SpreadProps(x) ==
    CASE x.kind = "obj" -> x.val
      [] x.kind = "arr" -> [i \in DOMAIN x.val |-> Prop(IndexKey(i - 1), x.val[i])]
      [] x.kind = "str" -> [i \in DOMAIN x.val |-> Prop(IndexKey(i - 1), JStr(<<x.val[i]>>))]
      [] OTHER -> <<>>

RECURSIVE DefineAll(_, _)
DefineAll(o, ps) ==
    IF ps = <<>> THEN o
    ELSE DefineAll(DefineOwn(o, Head(ps).key, Head(ps).value), Tail(ps))

\* { ...x }
Spread(x) == DefineAll(JObj(<<>>), SpreadProps(x))

\* { ...x, ...y }
Spread2(x, y) == DefineAll(Spread(x), SpreadProps(y))

\* `key in result`
keyInResult(result, key) == HasProperty(result, key)

RECURSIVE AppendNew(_, _)
AppendNew(es1, es2) ==
    IF es2 = <<>> THEN es1
    ELSE AppendNew(IF \E i \in DOMAIN es1 : es1[i] = Head(es2) THEN es1 ELSE Append(es1, Head(es2)),
                   Tail(es2))

\* a concatenation that drops what is already there
spreadArraysUnique(es1, es2) == AppendNew(es1, es2)

\* [...obj1, ...obj2]
spreadArrays(es1, es2) == es1 \o es2

RECURSIVE deepMerge(_, _)
RECURSIVE mergeKeys(_, _)
\* for (const key in obj2) { ... } over the properties ps of obj2 left to visit
mergeKeys(result, ps) ==
    IF ps = <<>> THEN result
    ELSE LET key == Head(ps).key
             next == IF keyInResult(result, key)
                     THEN Set(result, key, deepMerge(Get(result, key), Head(ps).value))
                     ELSE Set(result, key, Head(ps).value)
         IN  mergeKeys(next, Tail(ps))

deepMerge(obj1, obj2) ==
    IF isArray(obj1) /\ isArray(obj2)
    THEN JArr(spreadArrays(obj1.val, obj2.val))
    ELSE IF isNonArrayObject(obj1) /\ isNonArrayObject(obj2)
    THEN mergeKeys(Spread(obj1), obj2.val)
    ELSE obj2

\* what JSON.stringify shows of a value: own enumerable properties only
RECURSIVE Json(_)
Json(x) ==
    CASE x.kind = "obj" ->
            JObj([i \in DOMAIN x.val |-> Prop(x.val[i].key, Json(x.val[i].value))])
      [] x.kind = "arr" -> JArr([i \in DOMAIN x.val |-> Json(x.val[i])])
      [] OTHER -> x

(***************************************************************************)
(* The same values as objects with identity.  heap[a] is the object at     *)
(* address a: a record [kind, proto, val] as above whose elements,         *)
(* property values and prototype are primitives or references.  An         *)
(* assignment replaces heap[a], and every holder of a reference to it sees *)
(* the change.  Object.prototype is the object at the first address.       *)
(***************************************************************************)
Ref(a) == [kind |-> "ref", proto |-> <<>>, val |-> <<a>>]
IsRef(v) == v.kind = "ref"
Heap0 == << ObjectPrototype >>
ObjectPrototypeRef == Ref(Len(Heap0))
At(h, v) == h[v.val[1]]
Deref(h, v) == IF IsRef(v) THEN At(h, v) ELSE v

\* a new object o: the heap with it, and the reference to it
New(h, o) == [heap |-> Append(h, o), value |-> Ref(Len(h) + 1)]

RECURSIVE Store(_, _)
RECURSIVE StoreAll(_, _, _)
\* the values xs built one after the other
StoreAll(h, xs, acc) ==
    IF xs = <<>> THEN [heap |-> h, value |-> acc]
    ELSE LET s == Store(h, Head(xs))
         IN  StoreAll(s.heap, Tail(xs), Append(acc, s.value))

\* r.json(): the document x built of new objects
Store(h, x) ==
    CASE x.kind = "arr" ->
            LET s == StoreAll(h, x.val, <<>>) IN New(s.heap, JArr(s.value))
      [] x.kind = "obj" ->
            LET s == StoreAll(h, [i \in DOMAIN x.val |-> x.val[i].value], <<>>)
            IN  New(s.heap, JObj([i \in DOMAIN x.val |-> Prop(x.val[i].key, s.value[i])]))
      [] OTHER -> [heap |-> h, value |-> x]

\* the two documents of Promise.all([...]), the first one built first
StoreBoth(h, d1, d2) ==
    LET s1 == Store(h, d1)
        s2 == Store(s1.heap, d2)
    IN  [heap |-> s2.heap, value |-> <<s1.value, s2.value>>]

\* the value v stands for in h, references followed
RECURSIVE Load(_, _)
Load(h, v) ==
    IF ~IsRef(v) THEN v
    ELSE LET o == At(h, v) IN
         CASE o.kind = "arr" -> JArr([i \in DOMAIN o.val |-> Load(h, o.val[i])])
           [] OTHER ->
                [kind |-> o.kind,
                 proto |-> IF o.proto = <<>> \/ o.proto = <<ObjectPrototypeRef>>
                           THEN <<>> ELSE <<Load(h, o.proto[1])>>,
                 val |-> [i \in DOMAIN o.val |-> Prop(o.val[i].key, Load(h, o.val[i].value))]]

isArrayAt(h, v) == IsRef(v) /\ At(h, v).kind = "arr"
isNonArrayObjectAt(h, v) == IsRef(v) /\ At(h, v).kind \in {"obj", "objproto"}

\* the prototype of the object at v
ProtoAt(h, v) ==
    CASE At(h, v).kind = "objproto" -> JNull
      [] At(h, v).proto = <<>> -> ObjectPrototypeRef
      [] OTHER -> At(h, v).proto[1]

\* `k in v`
RECURSIVE HasPropertyAt(_, _, _)
HasPropertyAt(h, v, k) ==
    IF ~IsRef(v) THEN FALSE
    ELSE LET o == At(h, v) IN
         CASE o.kind = "obj" -> HasOwn(o, k) \/ HasPropertyAt(h, ProtoAt(h, v), k)
           [] o.kind = "objproto" -> k \in ObjectProtoKeys \/ k \in OwnKeys(o)
           [] o.kind = "arr" ->
                 \/ (IsIndexKey(k) /\ IndexOf(k) < Len(o.val))
                 \/ k = "length"
                 \/ k \in ObjectProtoKeys
           [] OTHER -> FALSE

\* v[k] where k is a property of v; recv is the object the read started at
RECURSIVE GetAt(_, _, _, _)
GetAt(h, v, k, recv) ==
    IF ~IsRef(v) THEN JNull
    ELSE LET o == At(h, v) IN
         CASE o.kind = "obj" ->
                 IF HasOwn(o, k) THEN OwnGet(o, k) ELSE GetAt(h, ProtoAt(h, v), k, recv)
           [] o.kind = "arr" ->
                 IF IsIndexKey(k) /\ IndexOf(k) < Len(o.val) THEN o.val[IndexOf(k) + 1]
                 ELSE IF k = "length" THEN JNum(Len(o.val))
                 ELSE GetAt(h, ObjectPrototypeRef, k, recv)
           [] OTHER ->
                 IF k \in OwnKeys(o) THEN OwnGet(o, k)
                 ELSE IF k = "__proto__" THEN ProtoAt(h, recv)
                 ELSE BuiltinFn

RECURSIVE ReachesProtoAccessorAt(_, _)
ReachesProtoAccessorAt(h, v) ==
    IF ~IsRef(v) THEN FALSE
    ELSE CASE At(h, v).kind = "obj" ->
                 ~HasOwn(At(h, v), "__proto__") /\ ReachesProtoAccessorAt(h, ProtoAt(h, v))
           [] OTHER -> TRUE

\* r[k] = x: the heap afterwards
SetAt(h, r, k, x) ==
    IF k = "__proto__" /\ ReachesProtoAccessorAt(h, r)
    THEN IF (IsRef(x) \/ IsObjectOrNull(x)) /\ At(h, r).kind = "obj"
         THEN [h EXCEPT ![r.val[1]].proto = <<x>>]
         ELSE h
    ELSE [h EXCEPT ![r.val[1]] = DefineOwn(@, k, x)]

\* const result = obj1: the object itself instead of a copy
spreadObjectAliased(h, obj1) == [heap |-> h, value |-> obj1]

\* const result = { ...obj1 }: a new object with the own properties of obj1
spreadObject(h, obj1) == New(h, Spread(At(h, obj1)))

\* the keys `for (const key in obj2)` visits
ForInKeys(o) == [i \in DOMAIN o.val |-> o.val[i].key]

RECURSIVE deepMergeAt(_, _, _)
RECURSIVE mergeKeysAt(_, _, _, _)
\* the loop of deepMerge over the keys of obj2 left to visit
mergeKeysAt(h, result, obj2, keys) ==
    IF keys = <<>> THEN [heap |-> h, value |-> result]
    ELSE LET key == Head(keys)
             v2 == GetAt(h, obj2, key, obj2)
         IN  IF HasPropertyAt(h, result, key)
             THEN LET m == deepMergeAt(h, GetAt(h, result, key, result), v2)
                  IN  mergeKeysAt(SetAt(m.heap, result, key, m.value), result, obj2, Tail(keys))
             ELSE mergeKeysAt(SetAt(h, result, key, v2), result, obj2, Tail(keys))

\* deepMerge on objects with identity: the heap afterwards and what it returns
deepMergeAt(h, obj1, obj2) ==
    IF isArrayAt(h, obj1) /\ isArrayAt(h, obj2)
    THEN New(h, JArr(spreadArrays(At(h, obj1).val, At(h, obj2).val)))
    ELSE IF isNonArrayObjectAt(h, obj1) /\ isNonArrayObjectAt(h, obj2)
    THEN LET n == spreadObject(h, obj1)
         IN  mergeKeysAt(n.heap, n.value, obj2, ForInKeys(At(n.heap, obj2)))
    ELSE [heap |-> h, value |-> obj2]

(***************************************************************************)
(* The merge computation of the modal                                      *)
(***************************************************************************)
MergeStrategies == {"shallow", "deep", "override", "combine"}
NoPreview == <<>>

\* the switch of generatePreview
Merged(strategy, d1, d2) ==
    CASE strategy = "shallow" -> Spread2(d1, d2)
      [] strategy = "deep" -> deepMerge(d1, d2)
      [] strategy = "override" -> d2
      [] strategy = "combine" -> JObj(<<Prop("file1", d1), Prop("file2", d2)>>)

\* the same switch on objects with identity
MergedAt(h, strategy, d1, d2) ==
    CASE strategy = "shallow" -> New(h, Spread2(Deref(h, d1), Deref(h, d2)))
      [] strategy = "deep" -> deepMergeAt(h, d1, d2)
      [] strategy = "override" -> [heap |-> h, value |-> d2]
      [] strategy = "combine" -> New(h, JObj(<<Prop("file1", d1), Prop("file2", d2)>>))

\* the radio buttons
setMergeStrategy(s) ==
    /\ gpPc = "fetched"
    /\ mergeStrategy' = s
    /\ UNCHANGED <<data1, data2, preview, error, gpPc, heap, parsed, modalVars>>
    /\ UNCHANGED <<bulkVars, pageVars>>

\* generatePreview from the point where both fetches have settled: fetched says
\* whether both resolved with parsed JSON
generatePreview(fetched) ==
    /\ gpPc = "fetched"
    /\ gpPc' = "done"
    /\ IF fetched
       THEN /\ preview' = <<Merged(mergeStrategy, data1, data2)>>
            /\ heap' = MergedAt(heap, mergeStrategy, parsed[1], parsed[2]).heap
            /\ error' = error
       ELSE /\ error' = "Failed to generate preview"
            /\ preview' = preview
            /\ heap' = heap
    /\ UNCHANGED <<data1, data2, mergeStrategy, parsed, modalVars>>
    /\ UNCHANGED <<bulkVars, pageVars>>

(***************************************************************************)
(* The JSON documents the merge is checked on                              *)
(***************************************************************************)
JsonScalars == {JNull, JNum(1)}
JsonKeys == {"a", "__proto__"}

RECURSIVE JsonOfSize(_)
RECURSIVE SeqsOfSize(_)
RECURSIVE PropsOfSize(_, _)
\* the documents of exactly n nodes
JsonOfSize(n) ==
    (IF n = 1 THEN JsonScalars ELSE {})
    \cup { JArr(es) : es \in SeqsOfSize(n - 1) }
    \cup { JObj(ps) : ps \in PropsOfSize(n - 1, JsonKeys) }

SeqsOfSize(m) ==
    IF m = 0 THEN {<<>>}
    ELSE UNION { { <<v>> \o rest : v \in JsonOfSize(k), rest \in SeqsOfSize(m - k) } :
                 k \in 1..m }

PropsOfSize(m, ks) ==
    IF m = 0 THEN {<<>>}
    ELSE UNION { { <<Prop(key, v)>> \o rest :
                     v \in JsonOfSize(k), rest \in PropsOfSize(m - k, ks \ {key}) } :
                 key \in ks, k \in 1..m }

JsonUpTo(n) == UNION { JsonOfSize(k) : k \in 1..n }

\* pairs of documents of up to MaxNodes nodes together, and every document of
\* up to MaxNodes nodes paired with itself
MergeInputs ==
    UNION { { <<a, b>> : a \in JsonOfSize(i), b \in JsonUpTo(MaxNodes - i) } :
            i \in 1..(MaxNodes - 1) }
    \cup { <<x, x>> : x \in JsonUpTo(MaxNodes) }

(***************************************************************************)
(* Request bodies                                                          *)
(***************************************************************************)
\* body.files: absent (or another falsy value), a truthy non-array, an array
NoFiles == [kind |-> "missing", items |-> <<>>]
NotArray == [kind |-> "notArray", items |-> <<>>]
ArrayOf(s) == [kind |-> "array", items |-> s]

EntrySeqs == UNION { [1..n -> Entries] : n \in 0..MaxEntries }

\* body.action: "" stands for an absent or falsy action
Actions == {"", "delete", "archive"}

\* json = FALSE: request.json() rejects.  Every shape the validation tells
\* apart, each action with every shape of files; the arrays of a delete range
\* over all entry sequences.
Bodies ==
    { [json |-> FALSE, action |-> "", files |-> NoFiles] }
    \cup [json : {TRUE}, action : Actions,
          files : {NoFiles, NotArray, ArrayOf(<<>>)}]
    \cup [json : {TRUE}, action : {"", "archive"},
          files : {ArrayOf(<<e>>) : e \in Entries}]
    \cup [json : {TRUE}, action : {"delete"},
          files : {ArrayOf(s) : s \in EntrySeqs}]

NoBody == [json |-> FALSE, action |-> "", files |-> NoFiles]

NoResults == [success |-> 0, failed |-> 0, errors |-> <<>>]
NoResp == [status |-> 0]

EntriesOf(r) == Len(body[r].files.items)

(***************************************************************************)
(* POST /api/files/bulk                                                    *)
(***************************************************************************)
\* the validation without `files.length === 0`
InvalidRequestAllowsEmpty(b) ==
    \/ b.action = ""
    \/ b.files.kind = "missing"
    \/ b.files.kind # "array"

\* !action || !files || !Array.isArray(files) || files.length === 0
InvalidRequest(b) ==
    \/ b.action = ""
    \/ b.files.kind = "missing"
    \/ b.files.kind # "array"
    \/ Len(b.files.items) = 0

\* the branch of `if (storageType === "mongodb") ... else ...`
storeOf(storageType) == IF storageType = "mongodb" THEN "mongodb" ELSE "postgres"

fileInfo(r) == body[r].files.items[idx[r]]

Rows(store) == IF store = "mongodb" THEN mongo ELSE pg

\* a delete that removes nothing
WithoutNothing(f, k) == f

Without(f, k) == [x \in DOMAIN f \ {k} |-> f[x]]

\* a success whose increment is lost
SucceededLost(res) == res

\* results.success++
Succeeded(res) == [res EXCEPT !.success = @ + 1]

\* results.failed++; results.errors.push(`Failed to delete file ${fileInfo.id}: ...`)
Caught(res, id, msg) ==
    [res EXCEPT !.failed = @ + 1, !.errors = Append(@, [id |-> id, msg |-> msg])]

\* the end of one iteration of `for (const fileInfo of files)`: the next entry,
\* or the response after the last one
NextEntry(r, res) ==
    /\ results' = [results EXCEPT ![r] = res]
    /\ filePath' = [filePath EXCEPT ![r] = Null]
    /\ IF idx[r] < EntriesOf(r)
       THEN /\ idx' = [idx EXCEPT ![r] = @ + 1]
            /\ pc' = [pc EXCEPT ![r] = "lookup"]
            /\ resp' = resp
       ELSE /\ idx' = idx
            /\ pc' = [pc EXCEPT ![r] = "done"]
            /\ resp' = [resp EXCEPT ![r] = [status |-> 200, results |-> res]]

\* no try/catch around the loop body: the failure reaches the outer catch
CatchEntryAborts(r, msg) ==
    /\ threw' = [threw EXCEPT ![r] = Append(@, idx[r])]
    /\ resp' = [resp EXCEPT ![r] = [status |-> 500, error |-> "Failed to perform bulk operation"]]
    /\ pc' = [pc EXCEPT ![r] = "done"]
    /\ UNCHANGED <<results, filePath, idx>>

\* the inner catch: the failure is recorded and the loop goes on
CatchEntry(r, msg) ==
    /\ threw' = [threw EXCEPT ![r] = Append(@, idx[r])]
    /\ NextEntry(r, Caught(results[r], fileInfo(r).id, msg))

\* request.json(), the validation, the action dispatch
Parse(r) ==
    /\ pc[r] = "sent"
    /\ IF ~body[r].json
       THEN /\ resp' = [resp EXCEPT ![r] = [status |-> 500, error |-> "Failed to perform bulk operation"]]
            /\ pc' = [pc EXCEPT ![r] = "done"]
            /\ UNCHANGED <<idx, results>>
       ELSE IF InvalidRequest(body[r])
       THEN /\ resp' = [resp EXCEPT ![r] = [status |-> 400, error |-> "Action and files array are required"]]
            /\ pc' = [pc EXCEPT ![r] = "done"]
            /\ UNCHANGED <<idx, results>>
       ELSE IF body[r].action = "delete"
       THEN /\ results' = [results EXCEPT ![r] = NoResults]
            /\ IF Len(body[r].files.items) > 0
               THEN /\ idx' = [idx EXCEPT ![r] = 1]
                    /\ pc' = [pc EXCEPT ![r] = "lookup"]
                    /\ resp' = resp
               ELSE /\ idx' = idx
                    /\ pc' = [pc EXCEPT ![r] = "done"]
                    /\ resp' = [resp EXCEPT ![r] = [status |-> 200, results |-> NoResults]]
       ELSE /\ resp' = [resp EXCEPT ![r] = [status |-> 400, error |-> "Invalid action"]]
            /\ pc' = [pc EXCEPT ![r] = "done"]
            /\ UNCHANGED <<idx, results>>
    /\ UNCHANGED <<mongo, pg, disk, unlinkCalls, body, filePath, attempted, threw>>
    /\ UNCHANGED <<pageVars, mergeVars>>

\* connectMongoDB + FileModel.findById(id)  /  SELECT file_path FROM files WHERE id = $1
Lookup(r) ==
    /\ pc[r] = "lookup"
    /\ attempted' = [attempted EXCEPT ![r] = Append(@, idx[r])]
    /\ \E ok \in BOOLEAN :
         IF ~ok
         THEN CatchEntry(r, "lookup")
         ELSE LET rows == Rows(storeOf(fileInfo(r).storageType))
                  id == fileInfo(r).id
              IN  /\ threw' = threw
                  /\ IF id \in DOMAIN rows
                     THEN /\ filePath' = [filePath EXCEPT ![r] = rows[id]]
                          /\ pc' = [pc EXCEPT ![r] = "delete"]
                          /\ UNCHANGED <<idx, results, resp>>
                     ELSE NextEntry(r, Succeeded(results[r]))
    /\ UNCHANGED <<mongo, pg, disk, unlinkCalls, body>>
    /\ UNCHANGED <<pageVars, mergeVars>>

\* FileModel.findByIdAndDelete(id)  /  DELETE FROM files WHERE id = $1
Delete(r) ==
    /\ pc[r] = "delete"
    /\ \E ok \in BOOLEAN :
         IF ~ok
         THEN /\ CatchEntry(r, "delete")
              /\ UNCHANGED <<mongo, pg>>
         ELSE /\ IF storeOf(fileInfo(r).storageType) = "mongodb"
                 THEN /\ mongo' = Without(mongo, fileInfo(r).id)
                      /\ pg' = pg
                 ELSE /\ pg' = Without(pg, fileInfo(r).id)
                      /\ mongo' = mongo
              /\ threw' = threw
              /\ IF filePath[r] # Null
                 THEN /\ pc' = [pc EXCEPT ![r] = "unlink"]
                      /\ UNCHANGED <<idx, results, resp, filePath>>
                 ELSE NextEntry(r, Succeeded(results[r]))
    /\ UNCHANGED <<disk, unlinkCalls, body, attempted>>
    /\ UNCHANGED <<pageVars, mergeVars>>

\* no try/catch around unlink: its failure reaches the catch of the loop body
UnlinkFailedThrows(r) == CatchEntry(r, "unlink")

\* catch (error) { console.error("Failed to delete physical file:", error) }
\* and then results.success++
UnlinkFailed(r) ==
    /\ threw' = threw
    /\ NextEntry(r, Succeeded(results[r]))

\* unlink(absolutePath) inside its own try/catch, then results.success++
Unlink(r) ==
    /\ pc[r] = "unlink"
    /\ LET p == absolutePath(filePath[r]) IN
         IF p \notin disk
         THEN /\ unlinkCalls' = unlinkCalls \cup {[path |-> p, outcome |-> "ENOENT"]}
              /\ disk' = disk
              /\ UnlinkFailed(r)
         ELSE \E ok \in BOOLEAN :
                IF ok
                THEN /\ unlinkCalls' = unlinkCalls \cup {[path |-> p, outcome |-> "ok"]}
                     /\ disk' = disk \ {p}
                     /\ threw' = threw
                     /\ NextEntry(r, Succeeded(results[r]))
                ELSE /\ unlinkCalls' = unlinkCalls \cup {[path |-> p, outcome |-> "EPERM"]}
                     /\ disk' = disk
                     /\ UnlinkFailed(r)
    /\ UNCHANGED <<mongo, pg, body, attempted>>
    /\ UNCHANGED <<pageVars, mergeVars>>

\* any other client of the endpoint sends a body
ApiSend(b) ==
    /\ pc["api"] = "idle"
    /\ Len(b.files.items) + EntriesOf("ui") <= MaxEntries
    /\ body' = [body EXCEPT !["api"] = b]
    /\ pc' = [pc EXCEPT !["api"] = "sent"]
    /\ UNCHANGED <<mongo, pg, disk, unlinkCalls, idx, filePath, results, resp, attempted, threw>>
    /\ UNCHANGED <<pageVars, mergeVars>>

(***************************************************************************)
(* File records as the listing returns them to the page and the modal      *)
(***************************************************************************)
\* the upload path of a record: one blob per record
PathOf(id, storageType, extension) ==
    <<"/", "uploads", "/", storageType, IndexKey(id), ".", extension>>

File(id, storageType, extension) ==
    [id |-> id, storageType |-> storageType, extension |-> extension,
     filePath |-> PathOf(id, storageType, extension)]

\* the two records whose documents the merge computation is checked on
FirstFile == File(1, "postgres", "json")
SecondFile == File(2, "mongodb", "json")

(***************************************************************************)
(* The page                                                                *)
(***************************************************************************)
FileKeys == [id : Ids, storageType : {"mongodb", "postgres"}]

RECURSIVE SeqOfSet(_)
SeqOfSet(S) ==
    IF S = {} THEN <<>>
    ELSE LET m == CHOOSE x \in S : \A y \in S : x <= y
         IN  <<m>> \o SeqOfSet(S \ {m})

\* GET /api/files: the records of both stores in one list
Listing(m, p) ==
    [i \in 1..Cardinality(DOMAIN p) |-> [id |-> SeqOfSet(DOMAIN p)[i], storageType |-> "postgres"]]
    \o [i \in 1..Cardinality(DOMAIN m) |-> [id |-> SeqOfSet(DOMAIN m)[i], storageType |-> "mongodb"]]

Range(s) == { s[i] : i \in DOMAIN s }

RECURSIVE removeFile(_, _)
removeFile(s, f) ==
    IF s = <<>> THEN <<>>
    ELSE IF Head(s) = f THEN removeFile(Tail(s), f)
    ELSE <<Head(s)>> \o removeFile(Tail(s), f)

handleFileSelect(f) ==
    /\ ~loading
    /\ f \in Range(files)
    /\ IF f \in Range(selectedFiles)
       THEN selectedFiles' = removeFile(selectedFiles, f)
       ELSE /\ Len(selectedFiles) < MaxSelected
            /\ selectedFiles' = Append(selectedFiles, f)
    /\ UNCHANGED <<selectionMode, files, loading, uiPc>>
    /\ UNCHANGED <<bulkVars, mergeVars>>

toggleSelectionMode ==
    /\ selectionMode' = ~selectionMode
    /\ selectedFiles' = <<>>
    /\ UNCHANGED <<files, loading, uiPc>>
    /\ UNCHANGED <<bulkVars, mergeVars>>

selectAll ==
    /\ Len(files) <= MaxSelected
    /\ selectedFiles' = files
    /\ UNCHANGED <<selectionMode, files, loading, uiPc>>
    /\ UNCHANGED <<bulkVars, mergeVars>>

deselectAll ==
    /\ selectedFiles' = <<>>
    /\ UNCHANGED <<selectionMode, files, loading, uiPc>>
    /\ UNCHANGED <<bulkVars, mergeVars>>

\* if (selectedFiles.length === 0) return; if (!confirm(...)) return
BulkDeleteSends(sel, confirmed) == Len(sel) # 0 /\ confirmed

handleBulkDelete(confirmed) ==
    /\ uiPc = "idle"
    /\ pc["ui"] = "idle"
    /\ IF BulkDeleteSends(selectedFiles, confirmed)
       THEN /\ Len(selectedFiles) + EntriesOf("api") <= MaxEntries
            /\ body' = [body EXCEPT !["ui"] =
                          [json |-> TRUE, action |-> "delete",
                           files |-> [kind |-> "array",
                                      items |-> [i \in 1..Len(selectedFiles) |->
                                                   [id |-> selectedFiles[i].id,
                                                    storageType |-> selectedFiles[i].storageType]]]]]
            /\ pc' = [pc EXCEPT !["ui"] = "sent"]
            /\ uiPc' = "awaiting"
       ELSE UNCHANGED <<body, pc, uiPc>>
    /\ UNCHANGED <<mongo, pg, disk, unlinkCalls, idx, filePath, results, resp, attempted, threw>>
    /\ UNCHANGED <<selectedFiles, selectionMode, files, loading>>
    /\ UNCHANGED mergeVars

\* the continuation of handleBulkDelete after `await fetch(...)`
handleBulkDeleteResponse ==
    /\ uiPc = "awaiting"
    /\ pc["ui"] = "done"
    /\ uiPc' = "finished"
    /\ IF resp["ui"].status = 200
       THEN /\ selectedFiles' = <<>>
            /\ selectionMode' = FALSE
            /\ loading' = TRUE
            /\ files' = files
       ELSE UNCHANGED <<selectedFiles, selectionMode, files, loading>>
    /\ UNCHANGED <<bulkVars, mergeVars>>

\* fetchFiles: the listing arrives
fetchFiles ==
    /\ loading
    /\ files' = Listing(mongo, pg)
    /\ loading' = FALSE
    /\ UNCHANGED <<selectedFiles, selectionMode, uiPc>>
    /\ UNCHANGED <<bulkVars, mergeVars>>

(***************************************************************************)
(* The merge modal as the page renders it: files={selectedFiles}           *)
(***************************************************************************)
\* what the computation of one preview works on; the modal's events leave it alone
computeVars == <<data1, data2, gpPc, heap, parsed>>

\* the records a listing can hold: two that share the id 1 across the stores,
\* and one that is not JSON
ModalFiles ==
    {File(1, "postgres", "json"), File(1, "mongodb", "json"),
     File(2, "mongodb", "json"), File(2, "postgres", "txt")}

\* the listing the page starts from: every record, or two of them
ModalListings ==
    { <<File(1, "postgres", "json"), File(2, "postgres", "txt"),
        File(1, "mongodb", "json"), File(2, "mongodb", "json")>>,
      <<FirstFile, SecondFile>> }

\* the documents stored under the paths of the JSON records
ModalContent ==
    (File(1, "postgres", "json").filePath :> JObj(<<Prop("a", JNum(1))>>))
    @@ (File(1, "mongodb", "json").filePath :> JObj(<<Prop("a", JArr(<<>>))>>))
    @@ (File(2, "mongodb", "json").filePath :> JArr(<<JNum(1)>>))

\* files with no filter
jsonFilesUnfiltered(fs) == fs

\* files.filter(f => f.extension === "json")
jsonFiles(fs) == SelectSeq(fs, LAMBDA f : f.extension = "json")

\* disabled={selectedFiles.filter((f) => f.extension === "json").length < 2}
MergeJsonDisabled(sel) == Len(SelectSeq(sel, LAMBDA f : f.extension = "json")) < 2

\* value={file.id} of option i; option 0 is "Select a file..."
OptionValue(fs, i) == IF i = 0 THEN "" ELSE IndexKey(fs[i].id)

\* jsonFiles.find(f => String(f.id) === value) || null
findFile(fs, value) ==
    IF \E i \in DOMAIN fs : IndexKey(fs[i].id) = value
    THEN fs[CHOOSE i \in DOMAIN fs :
              /\ IndexKey(fs[i].id) = value
              /\ \A j \in DOMAIN fs : IndexKey(fs[j].id) = value => i <= j]
    ELSE Null

\* value={selectedFiles[n]?.id || ""}: the option the dropdown shows
ShownOption(fs, slot) ==
    IF slot = Null \/ ~\E i \in DOMAIN fs : fs[i].id = slot.id THEN 0
    ELSE CHOOSE i \in DOMAIN fs :
            /\ fs[i].id = slot.id
            /\ \A j \in DOMAIN fs : fs[j].id = slot.id => i <= j

\* disabled={file.id === selectedFiles[0]?.id} on the options of the second dropdown
OptionDisabled(f, sel) == sel[1] # Null /\ f.id = sel[1].id

\* the dropdowns and the footer are rendered
ModalShowsFiles == mergeModalOpen /\ Len(jsonFiles(selectedFiles)) >= 2

\* what generatePreview of one render closes over
Closure(sel, strategy) == [files |-> sel, strategy |-> strategy]

\* useEffect(..., [selectedFiles, mergeStrategy]) after a render with new
\* dependencies: the cleanup clears the pending timer, then a new timer or
\* setPreview(null)
debounceEffect(sel, strategy) ==
    IF sel[1] # Null /\ sel[2] # Null
    THEN /\ timer' = <<Closure(sel, strategy)>>
         /\ preview' = preview
    ELSE /\ timer' = <<>>
         /\ preview' = NoPreview

\* onClick={() => setMergeModalOpen(true)} of the Merge JSON button, then the
\* modal's useEffect(..., [isOpen]) and, its state being new, the debounce effect
openMergeModal ==
    /\ ~mergeModalOpen
    /\ selectionMode /\ Len(selectedFiles) > 0
    /\ ~MergeJsonDisabled(selectedFiles)
    /\ mergeModalOpen' = TRUE
    /\ mergeSelected' = <<Null, Null>>
    /\ mergeStrategy' = "shallow"
    /\ error' = ""
    /\ timer' = <<>>
    /\ preview' = NoPreview
    /\ picked' = <<Null, Null>>
    /\ UNCHANGED <<merging, fetching, mergeRequest, content>>
    /\ UNCHANGED <<bulkVars, pageVars, computeVars>>

\* onClose={() => setMergeModalOpen(false)} from the X and the Cancel button
onClose ==
    /\ mergeModalOpen
    /\ mergeModalOpen' = FALSE
    /\ UNCHANGED <<mergeSelected, merging, timer, fetching, mergeRequest, picked, content>>
    /\ UNCHANGED <<mergeStrategy, preview, error>>
    /\ UNCHANGED <<bulkVars, pageVars, computeVars>>

\* onChange of the first dropdown: the user picks option i
onFirstFileChange(i) ==
    /\ ModalShowsFiles
    /\ i \in 0..Len(jsonFiles(selectedFiles))
    /\ i # ShownOption(jsonFiles(selectedFiles), mergeSelected[1])
    /\ LET fs == jsonFiles(selectedFiles)
           file == findFile(fs, OptionValue(fs, i))
           sel == <<file, mergeSelected[2]>>
       IN  /\ mergeSelected' = sel
           /\ picked' = [picked EXCEPT ![1] = IF i = 0 THEN Null ELSE fs[i]]
           /\ debounceEffect(sel, mergeStrategy)
    /\ UNCHANGED <<mergeModalOpen, merging, fetching, mergeRequest, content>>
    /\ UNCHANGED <<mergeStrategy, error>>
    /\ UNCHANGED <<bulkVars, pageVars, computeVars>>

\* onChange of the second dropdown: the user picks option i, which is not disabled
onSecondFileChange(i) ==
    /\ ModalShowsFiles
    /\ i \in 0..Len(jsonFiles(selectedFiles))
    /\ i # ShownOption(jsonFiles(selectedFiles), mergeSelected[2])
    /\ i # 0 => ~OptionDisabled(jsonFiles(selectedFiles)[i], mergeSelected)
    /\ LET fs == jsonFiles(selectedFiles)
           file == findFile(fs, OptionValue(fs, i))
           sel == <<mergeSelected[1], file>>
       IN  /\ mergeSelected' = sel
           /\ picked' = [picked EXCEPT ![2] = IF i = 0 THEN Null ELSE fs[i]]
           /\ debounceEffect(sel, mergeStrategy)
    /\ UNCHANGED <<mergeModalOpen, merging, fetching, mergeRequest, content>>
    /\ UNCHANGED <<mergeStrategy, error>>
    /\ UNCHANGED <<bulkVars, pageVars, computeVars>>

\* onChange of a radio button of the open modal, then the debounce effect
onStrategyChange(s) ==
    /\ ModalShowsFiles
    /\ s # mergeStrategy
    /\ mergeStrategy' = s
    /\ debounceEffect(mergeSelected, s)
    /\ UNCHANGED <<mergeModalOpen, mergeSelected, merging, fetching, mergeRequest, picked, content>>
    /\ UNCHANGED error
    /\ UNCHANGED <<bulkVars, pageVars, computeVars>>

\* the setTimeout callback: generatePreview() of the render that set the timer,
\* up to its await
previewTimer ==
    /\ timer # <<>>
    /\ timer[1] \in fetching \/ Cardinality(fetching) < MaxFetches
    /\ fetching' = fetching \cup {timer[1]}
    /\ timer' = <<>>
    /\ UNCHANGED <<mergeModalOpen, mergeSelected, merging, mergeRequest, picked, content>>
    /\ UNCHANGED <<mergeStrategy, preview, error>>
    /\ UNCHANGED <<bulkVars, pageVars, computeVars>>

\* generatePreview of closure c after its await: both fetches settled, ok says
\* whether both resolved with parsed JSON
previewFetched(c, ok) ==
    /\ c \in fetching
    /\ fetching' = fetching \ {c}
    /\ IF ok /\ c.files[1].filePath \in DOMAIN content /\ c.files[2].filePath \in DOMAIN content
       THEN /\ preview' = <<Merged(c.strategy, content[c.files[1].filePath],
                                   content[c.files[2].filePath])>>
            /\ error' = error
       ELSE /\ error' = "Failed to generate preview"
            /\ preview' = preview
    /\ UNCHANGED <<mergeModalOpen, mergeSelected, merging, timer, mergeRequest, picked, content>>
    /\ UNCHANGED mergeStrategy
    /\ UNCHANGED <<bulkVars, pageVars, computeVars>>

\* disabled={!selectedFiles[0] || !selectedFiles[1] || loading} of Merge Files
MergeFilesDisabled == mergeSelected[1] = Null \/ mergeSelected[2] = Null \/ merging

\* the body of the request handleMerge sends
MergeBody(sel, strategy) ==
    [file1Id |-> sel[1].id, file1StorageType |-> sel[1].storageType,
     file2Id |-> sel[2].id, file2StorageType |-> sel[2].storageType,
     strategy |-> strategy]

\* handleMerge up to its await
handleMerge ==
    /\ ModalShowsFiles
    /\ ~MergeFilesDisabled
    /\ IF mergeSelected[1] = Null \/ mergeSelected[2] = Null
       THEN /\ error' = "Please select two JSON files"
            /\ UNCHANGED <<merging, mergeRequest>>
       ELSE /\ merging' = TRUE
            /\ error' = ""
            /\ mergeRequest' = <<MergeBody(mergeSelected, mergeStrategy)>>
    /\ UNCHANGED <<mergeModalOpen, mergeSelected, timer, fetching, picked, content>>
    /\ UNCHANGED <<mergeStrategy, preview>>
    /\ UNCHANGED <<bulkVars, pageVars, computeVars>>

\* handleMerge after its await: onMergeComplete() and onClose(), or setError,
\* and setLoading(false) in either case
handleMergeResponse(outcome) ==
    /\ mergeRequest # <<>>
    /\ mergeRequest' = <<>>
    /\ merging' = FALSE
    /\ CASE outcome = "ok" ->
               /\ loading' = TRUE
               /\ selectedFiles' = <<>>
               /\ mergeModalOpen' = FALSE
               /\ error' = error
         [] outcome = "rejected" ->
               /\ error' = "Merge failed"
               /\ UNCHANGED <<loading, selectedFiles, mergeModalOpen>>
         [] outcome = "threw" ->
               /\ error' = "Failed to merge files"
               /\ UNCHANGED <<loading, selectedFiles, mergeModalOpen>>
    /\ UNCHANGED <<mergeSelected, timer, fetching, picked, content>>
    /\ UNCHANGED <<mergeStrategy, preview>>
    /\ UNCHANGED <<selectionMode, files, uiPc>>
    /\ UNCHANGED <<bulkVars, computeVars>>

\* fetchFiles of onMergeComplete: the listing arrives, with the records it had
filesRefetched ==
    /\ loading
    /\ loading' = FALSE
    /\ files' = files
    /\ UNCHANGED <<selectedFiles, selectionMode, uiPc>>
    /\ UNCHANGED <<bulkVars, mergeVars>>

(***************************************************************************)
(* Specification of the bulk endpoint and the page                         *)
(***************************************************************************)
\* every record was stored with a blob of its own under its filePath
OwnBlobs(pm, pp) == absolutePath(pm) # absolutePath(pp)

BulkInit ==
    /\ \E pm \in {MongoPath}, pp \in StoredPaths :
         /\ OwnBlobs(pm, pp)
         /\ mongo = [i \in StoredIds |-> pm]
         /\ pg = [i \in StoredIds |-> pp]
         /\ disk = {absolutePath(pm), absolutePath(pp)}
    /\ unlinkCalls = {}
    /\ body = [r \in Requests |-> NoBody]
    /\ pc = [r \in Requests |-> "idle"]
    /\ idx = [r \in Requests |-> 0]
    /\ filePath = [r \in Requests |-> Null]
    /\ results = [r \in Requests |-> NoResults]
    /\ resp = [r \in Requests |-> NoResp]
    /\ attempted = [r \in Requests |-> <<>>]
    /\ threw = [r \in Requests |-> <<>>]
    /\ selectedFiles = <<>>
    /\ selectionMode = FALSE
    /\ files = Listing(mongo, pg)
    /\ loading = FALSE
    /\ uiPc = "idle"

\* the modal closed, as constructed
ModalIdle ==
    /\ mergeModalOpen = FALSE
    /\ mergeSelected = <<Null, Null>>
    /\ merging = FALSE
    /\ timer = <<>>
    /\ fetching = {}
    /\ mergeRequest = <<>>
    /\ picked = <<Null, Null>>
    /\ content = <<>>

\* the modal as constructed, no preview under way
MergeIdle ==
    /\ data1 = JNull
    /\ data2 = JNull
    /\ mergeStrategy = "shallow"
    /\ preview = NoPreview
    /\ error = ""
    /\ gpPc = "idle"
    /\ heap = Heap0
    /\ parsed = <<>>
    /\ ModalIdle

Init == BulkInit /\ MergeIdle

Next ==
    \/ \E b \in Bodies : ApiSend(b)
    \/ \E r \in Requests : Parse(r)
    \/ \E r \in Requests : Lookup(r)
    \/ \E r \in Requests : Delete(r)
    \/ \E r \in Requests : Unlink(r)
    \/ \E f \in FileKeys : handleFileSelect(f)
    \/ toggleSelectionMode
    \/ selectAll
    \/ deselectAll
    \/ \E confirmed \in BOOLEAN : handleBulkDelete(confirmed)
    \/ handleBulkDeleteResponse
    \/ fetchFiles

Spec == Init /\ [][Next]_vars

(***************************************************************************)
(* Specification of the merge computation: two parsed documents, then the  *)
(* strategy chosen and the preview computed                                *)
(***************************************************************************)
BulkIdle ==
    /\ mongo = <<>>
    /\ pg = <<>>
    /\ disk = {}
    /\ unlinkCalls = {}
    /\ body = [r \in Requests |-> NoBody]
    /\ pc = [r \in Requests |-> "idle"]
    /\ idx = [r \in Requests |-> 0]
    /\ filePath = [r \in Requests |-> Null]
    /\ results = [r \in Requests |-> NoResults]
    /\ resp = [r \in Requests |-> NoResp]
    /\ attempted = [r \in Requests |-> <<>>]
    /\ threw = [r \in Requests |-> <<>>]
    /\ selectedFiles = <<>>
    /\ selectionMode = FALSE
    /\ files = <<>>
    /\ loading = FALSE
    /\ uiPc = "idle"

InitMerge ==
    /\ BulkIdle
    /\ \E d \in MergeInputs :
         /\ data1 = d[1]
         /\ data2 = d[2]
         /\ heap = StoreBoth(Heap0, d[1], d[2]).heap
         /\ parsed = StoreBoth(Heap0, d[1], d[2]).value
         /\ content = (FirstFile.filePath :> d[1]) @@ (SecondFile.filePath :> d[2])
    /\ mergeStrategy = "shallow"
    /\ preview = NoPreview
    /\ error = ""
    /\ gpPc = "fetched"
    /\ mergeModalOpen = TRUE
    /\ mergeSelected = <<FirstFile, SecondFile>>
    /\ merging = FALSE
    /\ timer = <<>>
    /\ fetching = {}
    /\ mergeRequest = <<>>
    /\ picked = <<FirstFile, SecondFile>>

NextMerge ==
    \/ \E s \in MergeStrategies : setMergeStrategy(s)
    \/ \E fetched \in BOOLEAN : generatePreview(fetched)

SpecMerge == InitMerge /\ [][NextMerge]_vars

(***************************************************************************)
(* Specification of the merge modal under the page: selection on the page, *)
(* the modal opened and closed, its dropdowns, strategy, debounced preview *)
(* and merge request                                                       *)
(***************************************************************************)
NoRequests ==
    /\ mongo = <<>>
    /\ pg = <<>>
    /\ disk = {}
    /\ unlinkCalls = {}
    /\ body = [r \in Requests |-> NoBody]
    /\ pc = [r \in Requests |-> "idle"]
    /\ idx = [r \in Requests |-> 0]
    /\ filePath = [r \in Requests |-> Null]
    /\ results = [r \in Requests |-> NoResults]
    /\ resp = [r \in Requests |-> NoResp]
    /\ attempted = [r \in Requests |-> <<>>]
    /\ threw = [r \in Requests |-> <<>>]

InitModal ==
    /\ NoRequests
    /\ files \in ModalListings
    /\ selectedFiles = <<>>
    /\ selectionMode = FALSE
    /\ loading = FALSE
    /\ uiPc = "idle"
    /\ data1 = JNull
    /\ data2 = JNull
    /\ mergeStrategy = "shallow"
    /\ preview = NoPreview
    /\ error = ""
    /\ gpPc = "idle"
    /\ heap = Heap0
    /\ parsed = <<>>
    /\ mergeModalOpen = FALSE
    /\ mergeSelected = <<Null, Null>>
    /\ merging = FALSE
    /\ timer = <<>>
    /\ fetching = {}
    /\ mergeRequest = <<>>
    /\ picked = <<Null, Null>>
    /\ content = ModalContent

MergeOutcomes == {"ok", "rejected", "threw"}

\* the open modal lies over the whole page (fixed inset-0): the page's buttons
\* and cards take clicks only while it is closed.  The timer callback and the
\* fetches of generatePreview are followed in SpecPreview: they write timer,
\* fetching, preview and error only, which no handler here reads.
NextModal ==
    \/ ~mergeModalOpen /\ \E f \in ModalFiles : handleFileSelect(f)
    \/ ~mergeModalOpen /\ toggleSelectionMode
    \/ ~mergeModalOpen /\ selectAll
    \/ ~mergeModalOpen /\ deselectAll
    \/ openMergeModal
    \/ onClose
    \/ \E i \in 0..Cardinality(ModalFiles) : onFirstFileChange(i)
    \/ \E i \in 0..Cardinality(ModalFiles) : onSecondFileChange(i)
    \/ \E s \in MergeStrategies : onStrategyChange(s)
    \/ handleMerge
    \/ \E outcome \in MergeOutcomes : handleMergeResponse(outcome)
    \/ filesRefetched

SpecModal == InitModal /\ [][NextModal]_vars

(***************************************************************************)
(* Specification of the preview of the open modal: two JSON files selected *)
(* on the page and the modal opened over them, then its dropdowns, its     *)
(* strategy, the debounce timer and the fetches of generatePreview, the    *)
(* modal closed and opened again                                           *)
(***************************************************************************)
InitPreview ==
    /\ NoRequests
    /\ files = <<FirstFile, SecondFile>>
    /\ selectedFiles = <<FirstFile, SecondFile>>
    /\ selectionMode = TRUE
    /\ loading = FALSE
    /\ uiPc = "idle"
    /\ data1 = JNull
    /\ data2 = JNull
    /\ mergeStrategy = "shallow"
    /\ preview = NoPreview
    /\ error = ""
    /\ gpPc = "idle"
    /\ heap = Heap0
    /\ parsed = <<>>
    /\ mergeModalOpen = TRUE
    /\ mergeSelected = <<Null, Null>>
    /\ merging = FALSE
    /\ timer = <<>>
    /\ fetching = {}
    /\ mergeRequest = <<>>
    /\ picked = <<Null, Null>>
    /\ content = ModalContent

NextPreview ==
    \/ openMergeModal
    \/ onClose
    \/ \E i \in 0..Cardinality(ModalFiles) : onFirstFileChange(i)
    \/ \E i \in 0..Cardinality(ModalFiles) : onSecondFileChange(i)
    \/ \E s \in MergeStrategies : onStrategyChange(s)
    \/ previewTimer
    \/ \E c \in fetching, ok \in BOOLEAN : previewFetched(c, ok)

SpecPreview == InitPreview /\ [][NextPreview]_vars

(***************************************************************************)
(* Properties of the bulk endpoint (specification Spec)                    *)
(***************************************************************************)
Items(r) == body[r].files.items
Indexes(n) == [i \in 1..n |-> i]
ValidDelete(r) == body[r].json /\ ~InvalidRequest(body[r]) /\ body[r].action = "delete"

\* C1: a failure thrown by the store lookup or the metadata delete of entry i
\* is caught: it adds one entry naming the id of entry i to errors, every
\* later entry is still attempted, and the response is never a 500 on its
\* account (only a body that cannot be parsed gets a 500).
C1_FailureIsolated ==
    \A r \in Requests :
        /\ resp[r].status = 500 => ~body[r].json
        /\ Len(results[r].errors) = Len(threw[r])
        /\ \A j \in DOMAIN threw[r] : results[r].errors[j].id = Items(r)[threw[r][j]].id
        /\ pc[r] \in {"lookup", "delete", "unlink"} => attempted[r] \in {Indexes(idx[r] - 1), Indexes(idx[r])}
        /\ (pc[r] = "done" /\ ValidDelete(r)) =>
              /\ resp[r].status = 200
              /\ attempted[r] = Indexes(Len(Items(r)))
              /\ resp[r].results = results[r]

\* C1 witness: the first of two entries failed, the second was still
\* processed and counted
C1_Witness ==
    \E r \in Requests :
        /\ pc[r] = "done"
        /\ Len(Items(r)) = 2
        /\ threw[r] = <<1>>
        /\ attempted[r] = <<1, 2>>
        /\ resp[r].status = 200
        /\ resp[r].results.success = 1
        /\ resp[r].results.failed = 1

\* C2: a delete response counts every entry whose record never existed in
\* failed, with an errors entry naming its id, and not in success.
C2_MissingCountedFailed ==
    \A r \in Requests :
        (pc[r] = "done" /\ ValidDelete(r)) =>
            LET missing == { i \in DOMAIN Items(r) : Items(r)[i].id \notin StoredIds } IN
            /\ resp[r].results.failed >= Cardinality(missing)
            /\ resp[r].results.success <= Len(Items(r)) - Cardinality(missing)
            /\ \A i \in missing :
                 \E j \in DOMAIN resp[r].results.errors :
                     resp[r].results.errors[j].id = Items(r)[i].id

\* C3: in every state, every record present in a store has its blob on disk.
C3_RecordHasBlob ==
    /\ \A id \in DOMAIN mongo : absolutePath(mongo[id]) \in disk
    /\ \A id \in DOMAIN pg : absolutePath(pg[id]) \in disk

\* C3 witness: between the steps of an entry, after an earlier entry failed:
\* the record is gone, its blob not yet, and another record is still stored
C3_Witness ==
    \E r \in Requests :
        /\ pc[r] = "unlink"
        /\ threw[r] # <<>>
        /\ absolutePath(filePath[r]) \in disk
        /\ DOMAIN mongo \cup DOMAIN pg # {}
        /\ Cardinality(DOMAIN mongo) + Cardinality(DOMAIN pg) = 1

\* C4: when the unlink of an entry fails (the blob missing included), the step
\* counts the entry in success, adds nothing to errors, leaves failed as it
\* is, and the record stays deleted.
C4_UnlinkFailureOnlyLogged ==
    [][ \A r \in Requests :
          (pc[r] = "unlink" /\ pc'[r] # "unlink" /\ disk' = disk) =>
              /\ results'[r].success = results[r].success + 1
              /\ results'[r].failed = results[r].failed
              /\ results'[r].errors = results[r].errors
              /\ Items(r)[idx[r]].id \notin
                    DOMAIN (IF Items(r)[idx[r]].storageType = "mongodb" THEN mongo' ELSE pg')
      ]_vars

\* C4 witness: an unlink found no blob, the request reported only successes,
\* and the record is gone
C4_Witness ==
    \E r \in Requests :
        /\ pc[r] = "done"
        /\ resp[r].status = 200
        /\ resp[r].results.failed = 0
        /\ resp[r].results.errors = <<>>
        /\ resp[r].results.success = Len(Items(r))
        /\ \E c \in unlinkCalls : c.outcome = "ENOENT"
        /\ Items(r)[1].id \notin DOMAIN Rows(storeOf(Items(r)[1].storageType))

\* a parsed body without an action, or whose files is missing, not an array,
\* or empty
EmptyInput(b) ==
    b.json /\ (b.action = "" \/ b.files.kind # "array" \/ b.files.items = <<>>)

\* C5: a request with empty input never enters the loop, so it changes no
\* record and no blob, and its response is the 400 error, never a 200; the
\* page never sends a request with no files.
C5_EmptyInputRejected ==
    /\ \A r \in Requests :
          EmptyInput(body[r]) =>
              /\ pc[r] \in {"sent", "done"}
              /\ attempted[r] = <<>>
              /\ results[r] = NoResults
              /\ pc[r] = "done" => resp[r].status = 400
    /\ pc["ui"] # "idle" =>
          /\ body["ui"].files.kind = "array"
          /\ body["ui"].files.items # <<>>
          /\ body["ui"].action = "delete"

\* C5 witness: a delete with an empty files array was answered 400, and the
\* page has sent its own request
C5_Witness ==
    /\ pc["api"] = "done"
    /\ body["api"] = [json |-> TRUE, action |-> "delete", files |-> ArrayOf(<<>>)]
    /\ resp["api"].status = 400
    /\ pc["ui"] # "idle"

\* C6: a record is missing from a store only if its exact (id, backend) pair
\* is an entry of some request, and the records still stored are unchanged.
C6_OnlyNamedRecordsRemoved ==
    /\ \A id \in StoredIds :
          /\ id \notin DOMAIN mongo =>
                \E r \in Requests : \E i \in DOMAIN Items(r) :
                    Items(r)[i] = [id |-> id, storageType |-> "mongodb"]
          /\ id \notin DOMAIN pg =>
                \E r \in Requests : \E i \in DOMAIN Items(r) :
                    Items(r)[i] = [id |-> id, storageType |-> "postgres"]
    /\ DOMAIN mongo \subseteq StoredIds
    /\ DOMAIN pg \subseteq StoredIds
    /\ \A id \in DOMAIN mongo : mongo[id] = MongoPath
    /\ \A id \in DOMAIN pg : pg[id] \in StoredPaths

\* C7: every path handed to unlink lies inside the blob root.
C7_UnlinkInsideRoot ==
    \A c \in unlinkCalls : InsideRoot(c.path)

(***************************************************************************)
(* Properties of the merge computation (specification SpecMerge)           *)
(***************************************************************************)
RECURSIVE RefDeep(_, _)
RECURSIVE RefDeepProps(_, _)
\* the properties of a, each merged with the value b has at the same key,
\* then the properties only b has
RefDeepProps(a, b) ==
    [i \in DOMAIN a.val |->
        IF a.val[i].key \in OwnKeys(b)
        THEN Prop(a.val[i].key, RefDeep(a.val[i].value, OwnGet(b, a.val[i].key)))
        ELSE a.val[i]]
    \o SelectSeq(b.val, LAMBDA q : q.key \notin OwnKeys(a))

\* the DEEP rule on JSON documents
RefDeep(a, b) ==
    IF a.kind = "obj" /\ b.kind = "obj" THEN JObj(RefDeepProps(a, b))
    ELSE IF a.kind = "arr" /\ b.kind = "arr" THEN JArr(a.val \o b.val)
    ELSE b

\* equality of JSON documents, the order of an object's keys left aside
RECURSIVE JsonEq(_, _)
JsonEq(x, y) ==
    /\ x.kind = y.kind
    /\ CASE x.kind = "obj" ->
               /\ OwnKeys(x) = OwnKeys(y)
               /\ \A k \in OwnKeys(x) : JsonEq(OwnGet(x, k), OwnGet(y, k))
         [] x.kind = "arr" ->
               /\ Len(x.val) = Len(y.val)
               /\ \A i \in DOMAIN x.val : JsonEq(x.val[i], y.val[i])
         [] OTHER -> x = y

\* C8: the deep preview of two documents is what the DEEP rule gives.
C8_DeepMergeIsDeepRule ==
    (gpPc = "done" /\ mergeStrategy = "deep" /\ preview # NoPreview) =>
        JsonEq(Json(preview[1]), RefDeep(data1, data2))

\* C9: under the shallow strategy, an input that is not an object gives the
\* error outcome and no preview.
C9_ShallowNeedsObjects ==
    (gpPc = "done" /\ mergeStrategy = "shallow" /\ (data1.kind # "obj" \/ data2.kind # "obj")) =>
        (error # "" /\ preview = NoPreview)

\* X with every array reachable through objects only replaced by the array
\* followed by itself
RECURSIVE Doubled(_)
Doubled(x) ==
    CASE x.kind = "arr" -> JArr(x.val \o x.val)
      [] x.kind = "obj" ->
            JObj([i \in DOMAIN x.val |-> Prop(x.val[i].key, Doubled(x.val[i].value))])
      [] OTHER -> x

\* C10: the deep merge of a document X with itself is X with every array
\* reachable through objects only doubled, keys and scalars unchanged.
C10_DeepMergeOfSelf ==
    (gpPc = "done" /\ mergeStrategy = "deep" /\ preview # NoPreview /\ data1 = data2) =>
        preview[1] = Doubled(data1)

\* C10 witness: a document merged with itself that holds a non-empty array and
\* a scalar under an object
C10_Witness ==
    /\ gpPc = "done"
    /\ mergeStrategy = "deep"
    /\ preview # NoPreview
    /\ data1 = data2
    /\ data1.kind = "obj"
    /\ \E i \in DOMAIN data1.val :
          data1.val[i].value.kind = "arr" /\ data1.val[i].value.val # <<>>
    /\ \E i \in DOMAIN data1.val : data1.val[i].value.kind \in {"num", "null"}

\* C11: once the preview is computed, under whichever strategy, the two parsed
\* documents are what r.json() returned (every object of them has the keys,
\* elements, values and prototype it was built with), and the two selected
\* file records and the documents stored under their paths are as before.
C11_MergeLeavesSourcesUnchanged ==
    gpPc = "done" =>
        /\ Load(heap, parsed[1]) = data1
        /\ Load(heap, parsed[2]) = data2
        /\ mergeSelected = <<FirstFile, SecondFile>>
        /\ content[FirstFile.filePath] = data1
        /\ content[SecondFile.filePath] = data2

\* C11 witness: a deep preview of two objects that share a key holding an
\* object on both sides, so that the merge assigned into a nested result
C11_Witness ==
    /\ gpPc = "done"
    /\ mergeStrategy = "deep"
    /\ preview # NoPreview
    /\ data1.kind = "obj"
    /\ data2.kind = "obj"
    /\ \E k \in OwnKeys(data1) \cap OwnKeys(data2) :
          /\ OwnGet(data1, k).kind = "obj"
          /\ OwnGet(data2, k).kind = "obj"
          /\ OwnGet(data2, k).val # <<>>
    /\ Len(heap) > Len(StoreBoth(Heap0, data1, data2).heap)

(***************************************************************************)
(* Properties of the merge modal (specifications SpecModal, SpecPreview)   *)
(***************************************************************************)
\* the record of the listing a request names
RecordNamed(id, storageType) ==
    CHOOSE f \in ModalFiles : f.id = id /\ f.storageType = storageType

IsJson(f) == f.extension = "json"

\* C12: every merge request the modal sends names two records whose extension
\* is json; a request is sent only from two filled slots; and the modal is
\* opened (the page's Merge JSON button takes the click) only when at least 2
\* of the selected files are json.
C12_OnlyJsonMerged ==
    /\ [](mergeRequest # <<>> =>
            /\ IsJson(RecordNamed(mergeRequest[1].file1Id, mergeRequest[1].file1StorageType))
            /\ IsJson(RecordNamed(mergeRequest[1].file2Id, mergeRequest[1].file2StorageType)))
    /\ [][(mergeRequest' # <<>> /\ mergeRequest' # mergeRequest) =>
             (mergeSelected[1] # Null /\ mergeSelected[2] # Null)]_vars
    /\ [][(mergeModalOpen' /\ ~mergeModalOpen) =>
             Cardinality({i \in DOMAIN selectedFiles : IsJson(selectedFiles[i])}) >= 2]_vars

\* C12 witness: a merge request in flight from a modal opened over a selection
\* that holds a file which is not JSON
C12_Witness ==
    /\ mergeModalOpen
    /\ mergeRequest # <<>>
    /\ \E i \in DOMAIN selectedFiles : ~IsJson(selectedFiles[i])

\* C13: the record a dropdown stores in its slot is the record of the option
\* picked, also when another offered record has the same id, and the merge
\* request carries the id and storageType of the records picked.
C13_SlotHoldsPickedRecord ==
    /\ \A n \in {1, 2} : picked[n] # Null => mergeSelected[n] = picked[n]
    /\ mergeRequest # <<>> =>
          /\ mergeRequest[1].file1Id = picked[1].id
          /\ mergeRequest[1].file1StorageType = picked[1].storageType
          /\ mergeRequest[1].file2Id = picked[2].id
          /\ mergeRequest[1].file2StorageType = picked[2].storageType

\* C15: while the modal is open, no preview fetch has failed, and no timer or
\* fetch is pending, the preview is the merge of the documents of the two
\* selected files under the selected strategy, and there is no preview when a
\* slot is empty.
C15_PreviewIsCurrent ==
    (mergeModalOpen /\ error = "" /\ timer = <<>> /\ fetching = {}) =>
        preview = IF mergeSelected[1] # Null /\ mergeSelected[2] # Null
                  THEN <<Merged(mergeStrategy, content[mergeSelected[1].filePath],
                                content[mergeSelected[2].filePath])>>
                  ELSE NoPreview

\* C16: two filled slots hold different (id, storageType) records, and a merge
\* request names two different records.
C16_SlotsHoldDifferentRecords ==
    /\ (mergeSelected[1] # Null /\ mergeSelected[2] # Null) =>
          <<mergeSelected[1].id, mergeSelected[1].storageType>>
             # <<mergeSelected[2].id, mergeSelected[2].storageType>>
    /\ mergeRequest # <<>> =>
          <<mergeRequest[1].file1Id, mergeRequest[1].file1StorageType>>
             # <<mergeRequest[1].file2Id, mergeRequest[1].file2StorageType>>

(***************************************************************************)
(* Accounting of the bulk endpoint (specification Spec)                    *)
(***************************************************************************)
\* C14: the result a delete returns for n entries has success + failed = n and
\* as many errors as failed, and it counts the request's own entries: it has
\* one error for each of its entries whose loop body threw, naming that
\* entry's id, in order, whatever another request did meanwhile.
C14_ResultAccountsOwnEntries ==
    \A r \in Requests :
        resp[r].status = 200 =>
            LET res == resp[r].results IN
            /\ res.success + res.failed = Len(Items(r))
            /\ Len(res.errors) = res.failed
            /\ res.failed = Len(threw[r])
            /\ \A i \in DOMAIN res.errors :
                  res.errors[i].id = Items(r)[threw[r][i]].id

\* C14 witness: a request has returned a result with a failure in it while the
\* other request is inside its loop
C14_Witness ==
    \E r \in Requests, q \in Requests :
        /\ r # q
        /\ resp[r].status = 200
        /\ resp[r].results.failed = 1
        /\ pc[q] \in {"delete", "unlink"}
        /\ attempted[q] # <<>>

====
